---- MODULE Spec2Model ----
(***************************************************************************)
(* Model of the Kafka fetch request handling declared in                   *)
(* src/v/kafka/requests/fetch_request.h: the flattening partition iterator *)
(* fetch_request::const_iterator and the fetch operation context           *)
(* op_context (byte budget, long-poll deadline, stop decision).            *)
(*                                                                         *)
(* size_t values are 64-bit words kept as four 16-bit limbs (least         *)
(* significant first), because the model checker's integers are 32 bits    *)
(* wide; int32_t values are plain integers in -2^31 .. 2^31-1.             *)
(***************************************************************************)
EXTENDS Integers, Sequences, FiniteSets, TLC

(* ------------------------------ bounds -------------------------------- *)

\* most topics in a request
MaxTopics == 3
\* most partitions in a request, all topics together
MaxTotalParts == 3
\* the clock value (milliseconds) at which the request arrives
StartClock == 1
\* most partitions in a request that asks for a long poll (max_wait_time > 0):
\* such a request is traversed once per pass
MaxPollParts == 1

(* -------------------- machine integers (size_t, int32_t) -------------- *)

\* one limb of a size_t word holds 16 bits
WORD == 65536
\* half a limb's range: the sign bit of the upper limb of an int32_t
HALF == 32768
\* INT32_MAX
INT32_MAX == 2147483647

\* the size_t (64 bits: four limbs, least significant first) holding the natural number n, for 0 <= n <= INT32_MAX
SizeT(n) == << n % WORD, n \div WORD, 0, 0 >>

SizeZero == << 0, 0, 0, 0 >>

\* size_t(v) for an int32_t v: the value modulo 2^64 (sign extension)
size_t_of_int32(v) ==
    IF v >= 0
    THEN SizeT(v)
    ELSE LET u == (v + INT32_MAX) + 1      \* v + 2^31, in 0 .. 2^31-1
         IN  << u % WORD, (u \div WORD) + HALF, WORD - 1, WORD - 1 >>

\* static_cast<int32_t>(s) for a size_t s: the low 32 bits, two's complement
int32_of_size_t(s) ==
    IF s[2] < HALF
    THEN s[2] * WORD + s[1]
    ELSE (s[2] - WORD) * WORD + s[1]

\* a + b on size_t (modulo 2^64)
SizeAdd(a, b) ==
    LET s1 == a[1] + b[1]
        s2 == a[2] + b[2] + (s1 \div WORD)
        s3 == a[3] + b[3] + (s2 \div WORD)
        s4 == a[4] + b[4] + (s3 \div WORD)
    IN  << s1 % WORD, s2 % WORD, s3 % WORD, s4 % WORD >>

\* a - b on size_t (modulo 2^64)
SizeSub(a, b) ==
    LET d1 == a[1] - b[1]
        d2 == a[2] - b[2] + (d1 \div WORD)
        d3 == a[3] - b[3] + (d2 \div WORD)
        d4 == a[4] - b[4] + (d3 \div WORD)
    IN  << d1 % WORD, d2 % WORD, d3 % WORD, d4 % WORD >>

\* a < b on size_t
SizeLess(a, b) ==
    \/ a[4] < b[4]
    \/ a[4] = b[4] /\ a[3] < b[3]
    \/ a[4] = b[4] /\ a[3] = b[3] /\ a[2] < b[2]
    \/ a[4] = b[4] /\ a[3] = b[3] /\ a[2] = b[2] /\ a[1] < b[1]

\* std::min(a, b) on size_t
SizeMin(a, b) == IF SizeLess(b, a) THEN b ELSE a

(* ---------------------------- std::optional --------------------------- *)

\* std::nullopt; a present value v is << v >>
nullopt == << >>

has_value(o) == o # nullopt

value(o) == o[1]

(* ------------------------------ request ------------------------------- *)

TopicNames == << "A", "B", "C", "D", "E", "F" >>

RECURSIVE Sum(_)
Sum(counts) ==
    IF counts = << >> THEN 0 ELSE Head(counts) + Sum(Tail(counts))

\* the numbers of partitions of the topics of a request, topic by topic
TopicShapes ==
    { c \in UNION { [1 .. n -> 0 .. MaxTotalParts] : n \in 0 .. MaxTopics } :
        Sum(c) <= MaxTotalParts }

\* fetch_request::topics: topics with a name and a vector of partitions
TopicsOf(counts) ==
    [ t \in 1 .. Len(counts) |->
        [ name       |-> TopicNames[t],
          partitions |-> [ p \in 1 .. counts[t] |-> [ id |-> p - 1 ] ] ] ]

\* a lower bound of the supported versions that lets version 3 in
min_supported_lowered == 4 - 1

\* fetch_api::min_supported, fetch_api::max_supported
min_supported == 4
max_supported == 10

\* the versions a request arrives with: the ends of the supported range and
\* their outer neighbours
Versions == { 3, 4, 10, 11 }

\* the version check of the decoder
supported(v) == min_supported <= v /\ v <= max_supported

\* values of max_wait_time (milliseconds)
MaxWaitTimes == { -1, 0, 2 }
\* values of min_bytes (int32_t)
MinBytesValues == { 0, 1000 }
\* values of max_bytes (int32_t)
MaxBytesValues == { -1, 0, 1000, INT32_MAX }

\* the number of partitions of a request, over all its topics
PartitionCount(topics) ==
    Sum([ t \in 1 .. Len(topics) |-> Len(topics[t].partitions) ])

\* the fields of fetch_request the operation context reads
Requests ==
    { r \in { [ max_wait_time |-> w, min_bytes |-> mn, max_bytes |-> mx,
                topics |-> TopicsOf(c) ] :
                w \in MaxWaitTimes, mn \in MinBytesValues,
                mx \in MaxBytesValues, c \in TopicShapes } :
        r.max_wait_time > 0 =>
            Sum([ t \in 1 .. Len(r.topics) |-> Len(r.topics[t].partitions) ])
                <= MaxPollParts }

\* debounce_delay testing max_wait_time < 0 where the code tests <= 0
debounce_delay_strict(req) ==
    IF req.max_wait_time < 0 THEN nullopt ELSE << req.max_wait_time >>

\* fetch_request::debounce_delay
debounce_delay(req) ==
    IF req.max_wait_time <= 0 THEN nullopt ELSE << req.max_wait_time >>

(* ----------------------- fetch_request::const_iterator ---------------- *)
\* An iterator into a vector is the index of the element it refers to; the
\* past-the-end iterator of a vector of n elements is n + 1.

\* a value-initialized (singular) partition iterator
Singular == 0

\* topics.cend()
topics_cend(req) == Len(req.topics) + 1

\* state_.topic->partitions.cend()
partitions_cend(req, t) == Len(req.topics[t].partitions) + 1

\* normalize with an `if' where the code has a `while': it steps over one
\* exhausted topic only
normalize_once(req, it) ==
    IF it.partition = partitions_cend(req, it.topic)
    THEN LET t == it.topic + 1
         IN  IF t # it.t_end
             THEN [ it EXCEPT !.new_topic = TRUE, !.topic = t, !.partition = 1 ]
             ELSE [ it EXCEPT !.new_topic = TRUE, !.topic = t ]
    ELSE it

\* const_iterator::normalize
RECURSIVE normalize(_, _)
normalize(req, it) ==
    IF it.partition = partitions_cend(req, it.topic)
    THEN LET t == it.topic + 1
         IN  IF t # it.t_end
             THEN normalize(req, [ it EXCEPT !.new_topic = TRUE,
                                             !.topic = t,
                                             !.partition = 1 ])
             ELSE [ it EXCEPT !.new_topic = TRUE, !.topic = t ]
    ELSE it

\* the constructor without its call of normalize
const_iterator_unnormalized(req, begin, end) ==
    LET it == [ new_topic |-> TRUE, topic |-> begin,
                partition |-> Singular, t_end |-> end ]
    IN  IF it.topic # it.t_end
        THEN [ it EXCEPT !.partition = 1 ]
        ELSE it

\* the constructor starting with new_topic = false
const_iterator_no_flag(req, begin, end) ==
    LET it == [ new_topic |-> FALSE, topic |-> begin,
                partition |-> Singular, t_end |-> end ]
    IN  IF it.topic # it.t_end
        THEN normalize(req, [ it EXCEPT !.partition = 1 ])
        ELSE it

\* const_iterator::const_iterator(begin, end)
const_iterator(req, begin, end) ==
    LET it == [ new_topic |-> TRUE, topic |-> begin,
                partition |-> Singular, t_end |-> end ]
    IN  IF it.topic # it.t_end
        THEN normalize(req, [ it EXCEPT !.partition = 1 ])
        ELSE it

\* operator++ without its call of normalize
increment_unnormalized(req, it) ==
    [ it EXCEPT !.partition = it.partition + 1, !.new_topic = FALSE ]

\* operator++ without `state_.new_topic = false'
increment_keeps_flag(req, it) ==
    normalize(req, [ it EXCEPT !.partition = it.partition + 1 ])

\* const_iterator::operator++
increment(req, it) ==
    normalize(req, [ it EXCEPT !.partition = it.partition + 1,
                               !.new_topic = FALSE ])

\* operator== comparing the partition iterators at the end as well
iterator_eq_strict(a, b) ==
    IF a.topic = b.topic THEN a.partition = b.partition ELSE FALSE

\* const_iterator::operator==
iterator_eq(a, b) ==
    IF a.topic = b.topic
    THEN IF a.topic = a.t_end THEN TRUE ELSE a.partition = b.partition
    ELSE FALSE

\* const_iterator::operator!=
iterator_neq(a, b) == ~ iterator_eq(a, b)

\* const_iterator::operator*: the value the iterator refers to
deref(it) ==
    [ new_topic |-> it.new_topic, topic |-> it.topic,
      partition |-> it.partition ]

\* fetch_request::cbegin
cbegin(req) == const_iterator(req, 1, topics_cend(req))

\* fetch_request::cend
cend(req) == const_iterator(req, topics_cend(req), topics_cend(req))

(* ------------------------------ op_context ---------------------------- *)

\* op_context::MAX_SIZE = 128 << 20
MAX_SIZE == 134217728

\* error_code values of a partition response
ErrorNone == "none"
ErrorCodes == { ErrorNone, "unknown_server_error" }

\* sizes (iobuf::size_bytes) of the record sets a partition read returns:
\* 0, 600 and 2^31 bytes
PayloadSizes == { SizeZero, SizeT(600), << 0, HALF, 0, 0 >> }

\* what read_from_ntp returns for a partition: an error code and an optional
\* record set, kept as its size
ReadResults ==
    { [ error |-> ErrorNone, record_set |-> nullopt ] }
    \cup { [ error |-> ErrorNone, record_set |-> << s >> ] : s \in PayloadSizes }
    \cup { [ error |-> e, record_set |-> nullopt ] : e \in ErrorCodes \ { ErrorNone } }

\* the constructor setting the deadline one tick late
op_context_late_deadline(req, clock) ==
    LET delay == debounce_delay(req)
    IN  [ request        |-> req,
          response       |-> [ partitions |-> << >> ],
          bytes_left     |-> SizeMin(SizeT(MAX_SIZE), size_t_of_int32(req.max_bytes)),
          deadline       |-> IF has_value(delay)
                             THEN << clock + value(delay) + 1 >>
                             ELSE nullopt,
          response_size  |-> SizeZero,
          response_error |-> FALSE ]

\* the constructor setting a deadline whatever debounce_delay returns
op_context_always_deadline(req, clock) ==
    [ request        |-> req,
      response       |-> [ partitions |-> << >> ],
      bytes_left     |-> SizeMin(SizeT(MAX_SIZE), size_t_of_int32(req.max_bytes)),
      deadline       |-> << clock + req.max_wait_time >>,
      response_size  |-> SizeZero,
      response_error |-> FALSE ]

\* op_context::op_context: decode the request, initialize the budgets
op_context(req, clock) ==
    LET delay == debounce_delay(req)
    IN  [ request        |-> req,
          response       |-> [ partitions |-> << >> ],
          bytes_left     |-> SizeMin(SizeT(MAX_SIZE), size_t_of_int32(req.max_bytes)),
          deadline       |-> IF has_value(delay)
                             THEN << clock + value(delay) >>
                             ELSE nullopt,
          response_size  |-> SizeZero,
          response_error |-> FALSE ]

\* start_response_topic inserting the new group at the front of
\* response.partitions
start_response_topic_front(o, topic) ==
    [ o EXCEPT !.response.partitions =
        << [ name |-> topic.name, responses |-> << >> ] >> \o @ ]

\* op_context::start_response_topic
start_response_topic(o, topic) ==
    [ o EXCEPT !.response.partitions =
        Append(@, [ name |-> topic.name, responses |-> << >> ]) ]

\* add_partition_response with `bytes_left -= size', without the std::min
add_partition_response_wraps(o, r) ==
    LET last == Len(o.response.partitions)
        o1   == IF has_value(r.record_set)
                THEN [ o EXCEPT
                        !.response_size = SizeAdd(@, value(r.record_set)),
                        !.bytes_left = SizeSub(@, value(r.record_set)) ]
                ELSE o
    IN  [ o1 EXCEPT !.response.partitions[last].responses = Append(@, r) ]

\* add_partition_response without `response_size += size'
add_partition_response_uncounted(o, r) ==
    LET last == Len(o.response.partitions)
        o1   == IF has_value(r.record_set)
                THEN [ o EXCEPT
                        !.bytes_left =
                            SizeSub(@, SizeMin(@, value(r.record_set))) ]
                ELSE o
    IN  [ o1 EXCEPT !.response.partitions[last].responses = Append(@, r) ]

\* add_partition_response counting into response_size only what the budget
\* still covered
add_partition_response_counts_budgeted(o, r) ==
    LET last == Len(o.response.partitions)
        o1   == IF has_value(r.record_set)
                THEN [ o EXCEPT
                        !.response_size =
                            SizeAdd(@, SizeMin(o.bytes_left, value(r.record_set))),
                        !.bytes_left =
                            SizeSub(@, SizeMin(@, value(r.record_set))) ]
                ELSE o
    IN  [ o1 EXCEPT !.response.partitions[last].responses = Append(@, r) ]

\* add_partition_response appending to response.partitions.front()
add_partition_response_front(o, r) ==
    LET o1 == IF has_value(r.record_set)
              THEN [ o EXCEPT
                      !.response_size = SizeAdd(@, value(r.record_set)),
                      !.bytes_left =
                          SizeSub(@, SizeMin(@, value(r.record_set))) ]
              ELSE o
    IN  [ o1 EXCEPT !.response.partitions[1].responses = Append(@, r) ]

\* op_context::add_partition_response
add_partition_response(o, r) ==
    LET last == Len(o.response.partitions)
        o1   == IF has_value(r.record_set)
                THEN [ o EXCEPT
                        !.response_size = SizeAdd(@, value(r.record_set)),
                        !.bytes_left =
                            SizeSub(@, SizeMin(@, value(r.record_set))) ]
                ELSE o
    IN  [ o1 EXCEPT !.response.partitions[last].responses = Append(@, r) ]

\* should_stop_fetch without its test of request.topics.empty()
should_stop_fetch_ignores_topics(o) ==
    \/ ~ has_value(debounce_delay(o.request))
    \/ int32_of_size_t(o.response_size) >= o.request.min_bytes
    \/ o.response_error

\* op_context::should_stop_fetch
should_stop_fetch(o) ==
    \/ ~ has_value(debounce_delay(o.request))
    \/ int32_of_size_t(o.response_size) >= o.request.min_bytes
    \/ o.request.topics = << >>
    \/ o.response_error

(* ------------------------- the fetch operation ------------------------ *)

VARIABLES
    version,    \* the negotiated version of the request
    rctx,       \* the request as it arrives (request_context)
    now,        \* model::timeout_clock::now()
    octx,       \* the op_context; << >> before it is constructed
    it,         \* the cursor of the current pass over request.topics
    pc,         \* "new", "pass", "wait", "done" or "error"
    yielded,    \* history: the values the cursor yielded in this pass
    passes,     \* history: the number of passes started
    created,    \* history: clock and bytes_left when octx was constructed
    reads       \* the reads of the pass that were dispatched together, in
                \* traversal order: nullopt while in flight, then the result

vars == << version, rctx, now, octx, it, pc, yielded, passes, created, reads >>

\* the operation never reads the version again once the request is
\* decoded: every request is explored at one supported version, the other
\* supported version with the requests of at most one partition
Init ==
    /\ rctx \in Requests
    /\ version \in Versions
    /\ version = 10 => PartitionCount(rctx.topics) <= 1
    /\ now = StartClock
    /\ octx = << >>
    /\ it = << >>
    /\ pc = "new"
    /\ yielded = << >>
    /\ passes = 0
    /\ created = << >>
    /\ reads = << >>

\* fetch_api::process, first step: construct the context, start the first pass
OpContext ==
    /\ pc = "new"
    /\ supported(version)
    /\ octx' = op_context(rctx, now)
    /\ it' = cbegin(rctx)
    /\ pc' = "pass"
    /\ yielded' = << >>
    /\ passes' = 1
    /\ created' = [ clock |-> now, bytes_left |-> octx'.bytes_left ]
    /\ UNCHANGED << version, rctx, now, reads >>

\* decoding a request of an unsupported version fails before any field is
\* parsed: no context is constructed
DecodeError ==
    /\ pc = "new"
    /\ ~ supported(version)
    /\ pc' = "error"
    /\ UNCHANGED << version, rctx, now, octx, it, yielded, passes, created, reads >>

\* one partition of the pass: start the topic's response group when the
\* cursor flags a new topic, read the partition, fold the result, advance
fetch_topic_partition(o, v, r) ==
    LET topic == o.request.topics[v.topic]
        o1    == IF v.new_topic THEN start_response_topic(o, topic) ELSE o
    IN  add_partition_response(o1,
            [ id |-> topic.partitions[v.partition].id,
              error |-> r.error, record_set |-> r.record_set ])

\* the time a read may take: none when the context has no deadline ("no
\* wait"), else it returns at once or a tick later, never past the deadline
ReadDurations(o, clock) ==
    IF has_value(o.deadline)
    THEN { d \in 0 .. 1 : d = 0 \/ clock + d <= value(o.deadline) }
    ELSE { 0 }

FetchPartition ==
    /\ pc = "pass"
    /\ iterator_neq(it, cend(octx.request))
    /\ \E r \in ReadResults :
          octx' = fetch_topic_partition(octx, deref(it), r)
    /\ \E d \in ReadDurations(octx, now) : now' = now + d
    /\ yielded' = Append(yielded, deref(it))
    /\ it' = increment(octx.request, it)
    /\ UNCHANGED << version, rctx, pc, passes, created, reads >>

\* the end of a pass: stop, or wait for more data until the deadline
EndPass ==
    /\ pc = "pass"
    /\ iterator_eq(it, cend(octx.request))
    /\ pc' = IF should_stop_fetch(octx) THEN "done"
             ELSE IF now < value(octx.deadline) THEN "wait"
             ELSE "done"
    /\ UNCHANGED << version, rctx, now, octx, it, yielded, passes, created, reads >>

\* the long-poll wait: it ends when more data arrives before the deadline,
\* and the partitions are polled again, or when the deadline expires, and
\* the operation finalizes with what it has
Wait ==
    /\ pc = "wait"
    /\ \E d \in 1 .. (value(octx.deadline) - now) : now' = now + d
    /\ IF now' < value(octx.deadline)
       THEN /\ it' = cbegin(octx.request)
            /\ pc' = "pass"
            /\ yielded' = << >>
            /\ passes' = passes + 1
            /\ reads' = << >>
       ELSE /\ pc' = "done"
            /\ UNCHANGED << it, yielded, passes, reads >>
    /\ UNCHANGED << version, rctx, octx, created >>

Next ==
    \/ DecodeError
    \/ OpContext
    \/ FetchPartition
    \/ EndPass
    \/ Wait

Spec == Init /\ [][Next]_vars

(* ------------- the pass with its reads running concurrently ----------- *)

\* the number of values a traversal from the cursor c yields
RECURSIVE TraversalLength(_, _)
TraversalLength(req, c) ==
    IF iterator_eq(c, cend(req))
    THEN 0
    ELSE 1 + TraversalLength(req, increment(req, c))

\* a pass begins: one read per traversed partition is dispatched, all of
\* them in flight together
DispatchReads ==
    /\ pc = "pass"
    /\ reads = << >>
    /\ yielded = << >>
    /\ iterator_neq(it, cend(octx.request))
    /\ reads' = [ k \in 1 .. TraversalLength(octx.request, it) |-> nullopt ]
    /\ UNCHANGED << version, rctx, now, octx, it, pc, yielded, passes, created >>

\* a read in flight returns; the reads return in any order
CompleteRead ==
    /\ pc = "pass"
    /\ \E k \in 1 .. Len(reads) :
          /\ ~ has_value(reads[k])
          /\ \E r \in ReadResults : reads' = [ reads EXCEPT ![k] = << r >> ]
    /\ UNCHANGED << version, rctx, now, octx, it, pc, yielded, passes, created >>

\* the result of the partition the cursor refers to is folded once its read
\* has returned: results are folded in traversal order
FoldRead ==
    /\ pc = "pass"
    /\ reads # << >>
    /\ iterator_neq(it, cend(octx.request))
    /\ has_value(reads[Len(yielded) + 1])
    /\ octx' = fetch_topic_partition(octx, deref(it),
                                     value(reads[Len(yielded) + 1]))
    /\ yielded' = Append(yielded, deref(it))
    /\ it' = increment(octx.request, it)
    /\ UNCHANGED << version, rctx, now, pc, passes, created, reads >>

NextConcurrent ==
    \/ DecodeError
    \/ OpContext
    \/ DispatchReads
    \/ CompleteRead
    \/ FoldRead
    \/ EndPass
    \/ Wait

SpecConcurrent == Init /\ [][NextConcurrent]_vars

\* the operation is scheduled until it returns: the clock advances and every
\* read returns, so a step that can be taken is eventually taken
FairSpec == Spec /\ WF_vars(Next)

(* ------------------------------ properties ---------------------------- *)

\* the context exists
Constructed == pc \notin { "new", "error" }

\* the partitions of `topics' from topic t on, in request order, each as
\* the positions of its topic and of itself within the topic
RECURSIVE RequestOrderFrom(_, _)
RequestOrderFrom(topics, t) ==
    IF t > Len(topics)
    THEN << >>
    ELSE [ p \in 1 .. Len(topics[t].partitions) |->
             [ topic |-> t, partition |-> p ] ]
         \o RequestOrderFrom(topics, t + 1)

RequestOrder(topics) == RequestOrderFrom(topics, 1)

\* the cursor of the pass has reached cend()
AtEnd == iterator_eq(it, cend(octx.request))

\* every partition response folded so far, group by group
RECURSIVE FoldedFrom(_, _)
FoldedFrom(groups, g) ==
    IF g > Len(groups) THEN << >>
    ELSE groups[g].responses \o FoldedFrom(groups, g + 1)

Folded == FoldedFrom(octx.response.partitions, 1)

\* s >= i for a size_t s and an int32_t i, as numbers
SizeGeqInt(s, i) == i <= 0 \/ ~ SizeLess(s, SizeT(i))

\* s <= i for a size_t s and an int32_t i, as numbers
SizeLeqInt(s, i) == i >= 0 /\ ~ SizeLess(SizeT(i), s)

\* C1: stepping the cursor from cbegin() until it equals cend() yields every
\* partition of the request exactly once, topics in request order and the
\* partitions of a topic in their order, each with the topic that holds it:
\* what has been yielded is always a prefix of the request's partitions in
\* request order, the cursor refers to the next one, and it equals cend()
\* exactly when all of them have been yielded.
TraversalInRequestOrder ==
    Constructed =>
        LET all == RequestOrder(octx.request.topics)
            n   == Len(yielded)
        IN  /\ n <= Len(all)
            /\ \A i \in 1 .. n :
                  /\ yielded[i].topic = all[i].topic
                  /\ yielded[i].partition = all[i].partition
            /\ AtEnd <=> (n = Len(all))
            /\ ~ AtEnd /\ n < Len(all) =>
                  /\ it.topic = all[n + 1].topic
                  /\ it.partition = all[n + 1].partition
            /\ pc \in { "wait", "done" } => n = Len(all)

\* C1 witness: a finished pass over [A: 2 partitions, B: none, C: 1]
TraversalInRequestOrderWitness ==
    /\ pc = "done"
    /\ Len(octx.request.topics) = 3
    /\ Len(octx.request.topics[1].partitions) = 2
    /\ Len(octx.request.topics[2].partitions) = 0
    /\ Len(octx.request.topics[3].partitions) = 1
    /\ Len(yielded) = 3
    /\ yielded[3].topic = 3

\* C2: a yielded value has new_topic set exactly when its partition is the
\* first partition of its topic.
NewTopicMarksFirstPartition ==
    Constructed =>
        /\ \A i \in 1 .. Len(yielded) :
              yielded[i].new_topic <=> (yielded[i].partition = 1)
        /\ ~ AtEnd => (it.new_topic <=> (it.partition = 1))

\* C2 witness: [A: [p0, p1], B: [], C: [p2]] has yielded exactly
\* (true, A, p0), (false, A, p1), (true, C, p2)
NewTopicMarksFirstPartitionWitness ==
    /\ Constructed
    /\ Len(octx.request.topics) = 3
    /\ octx.request.topics[2].partitions = << >>
    /\ AtEnd
    /\ yielded = << [ new_topic |-> TRUE,  topic |-> 1, partition |-> 1 ],
                    [ new_topic |-> FALSE, topic |-> 1, partition |-> 2 ],
                    [ new_topic |-> TRUE,  topic |-> 3, partition |-> 1 ] >>

\* C3: a topic without partitions is never yielded, wherever it stands in
\* the request, and when every topic is empty cbegin() equals cend().
EmptyTopicsNeverYielded ==
    /\ Constructed =>
          /\ \A i \in 1 .. Len(yielded) :
                octx.request.topics[yielded[i].topic].partitions # << >>
          /\ ~ AtEnd => octx.request.topics[it.topic].partitions # << >>
    /\ (\A t \in 1 .. Len(rctx.topics) : rctx.topics[t].partitions = << >>)
          => /\ iterator_eq(cbegin(rctx), cend(rctx))
             /\ yielded = << >>

\* C3 witness: a finished pass over [A: none, B: some, C: none] has yielded
\* B's partitions only
EmptyTopicsNeverYieldedWitness ==
    /\ pc = "done"
    /\ Len(octx.request.topics) = 3
    /\ octx.request.topics[1].partitions = << >>
    /\ octx.request.topics[2].partitions # << >>
    /\ octx.request.topics[3].partitions = << >>
    /\ Len(yielded) = Len(octx.request.topics[2].partitions)

\* C4: a fold never makes bytes_left wrap around or go below zero: folding a
\* present payload of size s leaves max(0, bytes_left - s), folding an
\* absent payload leaves bytes_left as it was.
BytesLeftSaturates ==
    [][ (pc = "pass" /\ octx' # octx) =>
            LET r == Folded'[Len(Folded')]
            IN  /\ ~ SizeLess(octx.bytes_left, octx'.bytes_left)
                /\ IF has_value(r.record_set)
                   THEN IF SizeLess(octx.bytes_left, value(r.record_set))
                        THEN octx'.bytes_left = SizeZero
                        ELSE SizeAdd(octx'.bytes_left, value(r.record_set))
                                = octx.bytes_left
                   ELSE octx'.bytes_left = octx.bytes_left ]_vars

\* C4 witness: a payload larger than what was left of a budget has been
\* folded, and bytes_left stands at zero
BytesLeftSaturatesWitness ==
    /\ Constructed
    /\ created.bytes_left # SizeZero
    /\ octx.bytes_left = SizeZero
    /\ SizeLess(created.bytes_left, octx.response_size)

\* C5 as claimed, for the requests with max_bytes >= 0 (for max_bytes < 0
\* see C6): response_size never exceeds min(MAX_SIZE, max_bytes).
ResponseSizeWithinBudget ==
    Constructed /\ octx.request.max_bytes >= 0 =>
        SizeLeqInt(octx.response_size,
                   IF octx.request.max_bytes < MAX_SIZE
                   THEN octx.request.max_bytes ELSE MAX_SIZE)

\* C5 amended: while budget is left, response_size has not exceeded the
\* budget B the context was created with: bytes_left > 0 implies
\* response_size = B - bytes_left.
ResponseSizeWithinBudgetWhileBytesLeft ==
    Constructed /\ octx.bytes_left # SizeZero =>
        /\ SizeAdd(octx.response_size, octx.bytes_left) = created.bytes_left
        /\ SizeLess(octx.response_size, created.bytes_left)

\* C5 witness: payload has been folded and budget is left
ResponseSizeWithinBudgetWhileBytesLeftWitness ==
    /\ Constructed
    /\ octx.response_size # SizeZero
    /\ octx.bytes_left # SizeZero
    /\ octx.request.max_bytes = 1000

\* C6 as claimed: on creation bytes_left is min(MAX_SIZE, max_bytes), for
\* every int32_t max_bytes.
InitialBytesLeftIsMin ==
    Constructed =>
        LET m == IF rctx.max_bytes < MAX_SIZE THEN rctx.max_bytes ELSE MAX_SIZE
        IN  m >= 0 /\ created.bytes_left = SizeT(m)

\* C7: with max_wait_time <= 0 should_stop_fetch is true in every state of
\* the operation, and the operation ends after exactly one pass.
NoLongPollStopsAfterOnePass ==
    Constructed /\ octx.request.max_wait_time <= 0 =>
        /\ should_stop_fetch(octx)
        /\ passes = 1
        /\ pc # "wait"

\* C7 witness: a request with max_wait_time = 0 whose pass gathered less
\* than min_bytes has ended after its one pass
NoLongPollStopsAfterOnePassWitness ==
    /\ pc = "done"
    /\ octx.request.max_wait_time = 0
    /\ octx.request.min_bytes = 1000
    /\ octx.response_size = SizeZero
    /\ yielded # << >>
    /\ passes = 1

\* C8: the context has a deadline exactly when max_wait_time > 0, the
\* deadline is the clock at creation plus max_wait_time, and it is present
\* exactly when debounce_delay() is.
DeadlineIffLongPoll ==
    Constructed =>
        /\ has_value(octx.deadline) <=> (octx.request.max_wait_time > 0)
        /\ has_value(octx.deadline) =>
              value(octx.deadline) = created.clock + octx.request.max_wait_time
        /\ has_value(octx.deadline) <=> has_value(debounce_delay(octx.request))

\* C8 witness: a long-poll operation waiting for its deadline
DeadlineIffLongPollWitness ==
    /\ pc = "wait"
    /\ has_value(octx.deadline)
    /\ now < value(octx.deadline)

\* C9 as claimed: should_stop_fetch is true whenever response_size >=
\* min_bytes, for every size_t response_size and int32_t min_bytes.
StopsWhenMinBytesReached ==
    Constructed /\ SizeGeqInt(octx.response_size, octx.request.min_bytes) =>
        should_stop_fetch(octx)

\* C10 as claimed: once a partition response with an error code other than
\* none has been folded, response_error is set and should_stop_fetch is true.
ErrorFoldStopsFetch ==
    Constructed
    /\ (\E i \in 1 .. Len(Folded) : Folded[i].error # ErrorNone) =>
        octx.response_error /\ should_stop_fetch(octx)

\* C11: for a request without topics, whatever its max_wait_time and
\* min_bytes, cbegin() equals cend(), no partition is read,
\* should_stop_fetch is true, and the operation ends after its one empty
\* pass, without waiting, with an empty response partition list.
NoTopicsReturnsAtOnce ==
    Constructed /\ octx.request.topics = << >> =>
        /\ iterator_eq(cbegin(octx.request), cend(octx.request))
        /\ AtEnd
        /\ yielded = << >>
        /\ should_stop_fetch(octx)
        /\ octx.response.partitions = << >>
        /\ passes = 1
        /\ pc # "wait"

\* C11 witness: a long-poll request (max_wait_time > 0, min_bytes > 0)
\* without topics has ended
NoTopicsReturnsAtOnceWitness ==
    /\ pc = "done"
    /\ octx.request.topics = << >>
    /\ octx.request.max_wait_time > 0
    /\ octx.request.min_bytes > 0
    /\ octx.response.partitions = << >>

\* the topics of `topics' that have partitions, as their positions
NonEmptyTopics(topics) ==
    { t \in 1 .. Len(topics) : topics[t].partitions # << >> }

\* the g-th topic, in request order, among those in the set ts
NthTopic(ts, g) ==
    CHOOSE t \in ts : Cardinality({ u \in ts : u < t }) = g - 1

RECURSIVE FoldedUnderFrom(_, _)
FoldedUnderFrom(groups, g) ==
    IF g > Len(groups) THEN << >>
    ELSE [ p \in 1 .. Len(groups[g].responses) |->
             [ name |-> groups[g].name, response |-> groups[g].responses[p] ] ]
         \o FoldedUnderFrom(groups, g + 1)

RECURSIVE CursorAfter(_, _)
CursorAfter(req, n) ==
    IF n = 0 THEN cbegin(req) ELSE increment(req, CursorAfter(req, n - 1))

\* C16: the cursor of the pass equals another cursor over the same request
\* exactly when both are at the same topic position and, unless that is the
\* end, at the same partition position, which is exactly when both are the
\* same number of increments from cbegin(); an exhausted cursor equals
\* cend() whatever partition position it last held, and a cursor that is
\* not exhausted does not.
CursorEqualityByPosition ==
    (Constructed /\ pc = "pass") =>
        LET req == octx.request
            n   == PartitionCount(req.topics)
            e   == cend(req)
        IN  /\ \A j \in 0 .. n :
                  LET c == CursorAfter(req, j)
                  IN  /\ iterator_eq(it, c)
                         <=> /\ it.topic = c.topic
                             /\ it.topic # topics_cend(req)
                                   => it.partition = c.partition
                      /\ iterator_eq(it, c) <=> j = Len(yielded)
                      /\ iterator_eq(c, it) <=> iterator_eq(it, c)
            /\ Len(yielded) = n => iterator_eq(it, e) /\ iterator_eq(e, it)
            /\ Len(yielded) < n => ~ iterator_eq(it, e) /\ ~ iterator_eq(e, it)

\* C16 witness: the exhausted cursor of a pass over two partitions, still
\* holding a partition position that cend() does not hold
CursorEqualityByPositionWitness ==
    /\ Constructed
    /\ pc = "pass"
    /\ Len(yielded) = 2
    /\ it.topic = topics_cend(octx.request)
    /\ it.partition # cend(octx.request).partition

\* the values a full traversal of `topics' yields, in order
TraversalOf(topics) ==
    LET all == RequestOrder(topics)
    IN  [ j \in 1 .. Len(all) |->
            [ new_topic |-> all[j].partition = 1,
              topic     |-> all[j].topic,
              partition |-> all[j].partition ] ]

\* C17: over a request of N partitions a cursor started at cbegin() equals
\* cend() after exactly N increments and not before, in every pass; it is
\* exhausted exactly when its topic position is the end of the topics; the
\* request is as it was received; and a later pass yields the sequence the
\* first one yielded.
TraversalFiniteRestartable ==
    (Constructed /\ pc = "pass") =>
        LET n == PartitionCount(rctx.topics)
        IN  /\ octx.request = rctx
            /\ Len(yielded) <= n
            /\ AtEnd <=> Len(yielded) = n
            /\ AtEnd <=> it.topic = topics_cend(rctx)
            /\ it = CursorAfter(rctx, Len(yielded))
            /\ yielded = SubSeq(TraversalOf(rctx.topics), 1, Len(yielded))
            /\ \A j \in 0 .. n :
                  iterator_eq(CursorAfter(rctx, j), cend(rctx)) <=> j = n

\* C17 witness: the second pass over a request whose only partition lies
\* between topics without partitions has ended
TraversalFiniteRestartableWitness ==
    /\ pc = "pass"
    /\ passes = 2
    /\ AtEnd
    /\ Len(yielded) = 1
    /\ Len(rctx.topics) = 3
    /\ rctx.topics[2].partitions # << >>

\* the sum of the sizes of the present payloads among the first k results
RECURSIVE PayloadSum(_, _)
PayloadSum(results, k) ==
    IF k = 0 THEN SizeZero
    ELSE IF has_value(results[k].record_set)
         THEN SizeAdd(PayloadSum(results, k - 1), value(results[k].record_set))
         ELSE PayloadSum(results, k - 1)

\* C18: with B the budget the context was created with, after any folds
\* every folded result is in the response, response_size is the sum of the
\* sizes of the present payloads folded, and bytes_left is max(0, B -
\* response_size); so an absent or zero-length payload is appended and
\* changes neither counter.
BudgetAccounting ==
    Constructed =>
        LET B   == created.bytes_left
            sum == PayloadSum(Folded, Len(Folded))
        IN  /\ Len(Folded)
                  = (passes - 1) * PartitionCount(rctx.topics) + Len(yielded)
            /\ octx.response_size = sum
            /\ octx.bytes_left = IF SizeLess(B, sum) THEN SizeZero
                                 ELSE SizeSub(B, sum)

\* C18 witness: an absent payload, a zero-length one and one of 600 bytes
\* have been folded against a budget of 1000
BudgetAccountingWitness ==
    /\ Constructed
    /\ created.bytes_left = SizeT(1000)
    /\ Len(Folded) = 3
    /\ \E i, j, k \in 1 .. 3 :
          /\ ~ has_value(Folded[i].record_set)
          /\ Folded[j].record_set = << SizeZero >>
          /\ Folded[k].record_set = << SizeT(600) >>
    /\ octx.bytes_left = SizeT(400)

\* the last topic group of the response under construction
LastGroup == octx.response.partitions[Len(octx.response.partitions)]

\* C19: whenever a pass is about to fold a partition, either the cursor
\* flags a new topic, so that start_response_topic runs first, or the
\* response has a last group and it is named after the partition's topic;
\* the first value of a traversal is flagged; and after a fold the last
\* group is named after the topic of the partition just folded and ends
\* with its result.
AppendHasItsTopicGroup ==
    (Constructed /\ pc = "pass") =>
        LET topics == octx.request.topics
        IN  /\ ~ AtEnd =>
                  \/ it.new_topic
                  \/ /\ octx.response.partitions # << >>
                     /\ LastGroup.name = topics[it.topic].name
            /\ (~ AtEnd /\ yielded = << >>) => it.new_topic
            /\ yielded # << >> =>
                  LET v == yielded[Len(yielded)]
                  IN  /\ octx.response.partitions # << >>
                      /\ LastGroup.name = topics[v.topic].name
                      /\ LastGroup.responses # << >>
                      /\ LastGroup.responses[Len(LastGroup.responses)].id
                            = topics[v.topic].partitions[v.partition].id

\* C19 witness: the second partition of a topic is about to be folded
\* without a new group, after a topic without partitions was stepped over
AppendHasItsTopicGroupWitness ==
    /\ Constructed
    /\ pc = "pass"
    /\ ~ AtEnd
    /\ ~ it.new_topic
    /\ it.topic = 2
    /\ it.partition = 2
    /\ Len(octx.response.partitions) = 1

\* C20 as claimed: within one operation, once should_stop_fetch is true it
\* stays true whatever is folded afterwards.
StopDecisionIsStable ==
    [][ (Constructed /\ Constructed' /\ should_stop_fetch(octx))
           => should_stop_fetch(octx') ]_vars

====
